---- MODULE Spec2Model ----
(***************************************************************************)
(* Model of palloy.py: PalloyConfig (the Parameter Set with its file       *)
(* overlay) and PalloySimulator (the five-stage workflow that rewrites the *)
(* two architecture descriptors, launches the external build / simulate    *)
(* commands and scrapes the trace file).                                   *)
(*                                                                         *)
(* The specifications share the variables:                                 *)
(*   SpecConfig  a PalloyConfig on its own: __init__ then update calls;    *)
(*   SpecCtor    PalloySimulator.__init__ over all argument / file cases;  *)
(*   Spec        a constructed PalloySimulator running workflows;          *)
(*   SpecTrace   extract_metrics over every short trace file;              *)
(*   SpecSave    workflows interleaved with save_results;                  *)
(*   SpecRewrite the descriptor rewrites over the parameter values;        *)
(*   SpecDriver  the example drivers test_cores.py and test_matmul.py.     *)
(***************************************************************************)
EXTENDS Integers, Sequences, FiniteSets, TLC

VARIABLES
    cfgFile,    \* the backing palloy_config.json as the filesystem holds it
    args,       \* the arguments PalloySimulator.__init__ was called with
    params,     \* PalloyConfig.params, the Parameter Set
    sim,        \* the PalloySimulator instance fields
    files,      \* descriptor files on disk: path -> content
    wkind,      \* what each workload path is on disk: "absent", "file", "dir"
    gvsocKind,  \* what sim.gvsoc_dir is on disk: "absent", "dir"
    trace,      \* the trace file on disk
    pc,         \* position of the running run_full_workflow, "idle" if none
    started,    \* stages the current / last workflow invocation started, in
                \* order, each with what it returned
    launched,   \* child processes launched by that invocation
    ret,        \* what that invocation returned
    last,       \* the last operation performed and its outcome
    runs,       \* workflow invocations made on this runner
    results,    \* result files on disk: path -> content
    driver      \* the example driver running, if any, and where it is

vars == <<cfgFile, args, params, sim, files, wkind, gvsocKind, trace,
          pc, started, launched, ret, last, runs, results, driver>>

-----------------------------------------------------------------------------
(* Python values.  One record shape for None, int and str so that values   *)
(* of different Python types can be compared.                              *)

None == [kind |-> "none", n |-> 0, s |-> ""]

IntV(i) == [kind |-> "int", n |-> i, s |-> ""]

StrV(str) == [kind |-> "str", n |-> 0, s |-> str]

IsInt(v) == v.kind = "int"

-----------------------------------------------------------------------------
(* PalloyConfig                                                            *)

DefaultWorkload == "./pulp-sdk/tests/hello/"

DefaultParams ==
    [ num_cluster_cores |-> IntV(8),
      l1_size_kb        |-> IntV(64),
      l2_size_kb        |-> IntV(1600),
      l2_num_banks      |-> IntV(4),
      workload_path     |-> StrV(DefaultWorkload) ]

Keys == DOMAIN DefaultParams

\* A key no Parameter Set recognizes.
UnknownKey == "trace_filter"

\* The value a config file gives to a key it defines with a non-null value.
FileVal(k) ==
    CASE k = "num_cluster_cores" -> IntV(2)
      [] k = "l1_size_kb"        -> IntV(32)
      [] k = "l2_size_kb"        -> IntV(512)
      [] k = "l2_num_banks"      -> IntV(2)
      [] k = "workload_path"     -> StrV("/opt/apps/matmul")
      [] OTHER                   -> IntV(7)

\* The value an explicit override (constructor argument, update) gives.
ArgVal(k) ==
    CASE k = "num_cluster_cores" -> IntV(4)
      [] k = "l1_size_kb"        -> IntV(128)
      [] k = "l2_size_kb"        -> IntV(32)
      [] k = "l2_num_banks"      -> IntV(8)
      [] k = "workload_path"     -> StrV("./pulp-sdk/tests/cluster/matmul_parallel/")
      [] OTHER                   -> IntV(9)

\* JSON objects a config file can hold: any subset of the keys, each null or
\* a value.
FileObjects(ks) ==
    UNION { [d -> {"null", "val"}] : d \in SUBSET ks }

ObjectOf(choice) ==
    [k \in DOMAIN choice |-> IF choice[k] = "null" THEN None ELSE FileVal(k)]

FileOf(kind, obj) == [kind |-> kind, obj |-> obj]

NoObject == [k \in {} |-> None]

FileStates(ks) ==
    { FileOf("absent", NoObject), FileOf("unreadable", NoObject),
      FileOf("malformed", NoObject) }
    \cup { FileOf("object", ObjectOf(c)) : c \in FileObjects(ks) }

\* The loop without its test "if key in self.params": every key of the file
\* is merged in.
RECURSIVE MergeLoadedAnyKey(_, _, _)
MergeLoadedAnyKey(p, obj, todo) ==
    IF todo = {} THEN p
    ELSE LET key == CHOOSE k \in todo : TRUE
             q   == [k \in DOMAIN p \cup {key} |-> IF k = key THEN obj[key] ELSE p[k]]
         IN  MergeLoadedAnyKey(q, obj, todo \ {key})

\* The loop of _load_config (lines 65-67): the keys of the loaded object are
\* visited one by one, in any order; each writes only its own entry.
RECURSIVE MergeLoaded(_, _, _)
MergeLoaded(p, obj, todo) ==
    IF todo = {} THEN p
    ELSE LET key == CHOOSE k \in todo : TRUE
             q   == IF key \in DOMAIN p
                    THEN [p EXCEPT ![key] = obj[key]]
                    ELSE p
         IN  MergeLoaded(q, obj, todo \ {key})

\* PalloyConfig._load_config: the Parameter Set after the call and whether an
\* exception left the method.
LoadConfig(p, file) ==
    CASE file.kind = "absent"     -> [params |-> p, raised |-> FALSE]
      [] file.kind = "unreadable" -> [params |-> p, raised |-> FALSE]
      [] file.kind = "malformed"  -> [params |-> p, raised |-> FALSE]
      [] OTHER -> [params |-> MergeLoaded(p, file.obj, DOMAIN file.obj),
                   raised |-> FALSE]

\* update without its test "value is not None".
UpdateOneNoneOverwrites(p, key, value) ==
    IF key \in DOMAIN p
    THEN [p EXCEPT ![key] = value]
    ELSE p

\* PalloyConfig.update for one keyword argument.
UpdateOne(p, key, value) ==
    IF key \in DOMAIN p /\ value # None
    THEN [p EXCEPT ![key] = value]
    ELSE p

\* PalloyConfig.update(**kwargs): kwargs is a function key -> value.
RECURSIVE UpdateAll(_, _, _)
UpdateAll(p, kwargs, todo) ==
    IF todo = {} THEN p
    ELSE LET key == CHOOSE k \in todo : TRUE
         IN  UpdateAll(UpdateOne(p, key, kwargs[key]), kwargs, todo \ {key})

\* PalloyConfig.get
Get(p, key, default) == IF key \in DOMAIN p THEN p[key] ELSE default

-----------------------------------------------------------------------------
(* Paths                                                                   *)

\* Path(p).resolve() as run with the current directory /cwd: a relative path
\* is made absolute and the trailing separator is dropped; an absolute path
\* without one is returned as it is.
Resolve(p) ==
    CASE p = "./pulp-sdk/tests/hello/" -> "/cwd/pulp-sdk/tests/hello"
      [] p = "./pulp-sdk/tests/cluster/matmul_parallel/"
             -> "/cwd/pulp-sdk/tests/cluster/matmul_parallel"
      [] OTHER -> p

\* str(Path(__file__).parent.parent.parent / "pulp-sdk/..."): the workload
\* a driver names, an absolute path.
DriverWorkload(prog) ==
    IF prog = "test_cores" THEN "/src/pulp-sdk/applications/MobileNetV1"
    ELSE "/src/pulp-sdk/tests/cluster/matmul_parallel"

\* The resolved workload paths.
WorkloadPaths ==
    { Resolve(DefaultWorkload), Resolve(FileVal("workload_path").s),
      Resolve(ArgVal("workload_path").s),
      DriverWorkload("test_cores"), DriverWorkload("test_matmul") }

\* A descriptor path is <<directory, file name>>, relative to script_dir.
DefaultClusterFile == <<"chips", "cluster.new.json">>

DefaultSocFile == <<"chips", "soc.new.json">>

\* script_dir / Path(cluster_config_file).parent / "cluster.json"
ClusterBaseOf(path) == <<path[1], "cluster.json">>

\* script_dir / Path(soc_config_file).parent / "soc.json"
SocBaseOf(path) == <<path[1], "soc.json">>

ClusterFileArgs ==
    { DefaultClusterFile, <<"chips", "cluster.json">>, <<"alt", "cluster.new.json">> }

SocFileArgs == { DefaultSocFile, <<"chips", "soc.json">> }

DescriptorPaths ==
    ClusterFileArgs \cup SocFileArgs
    \cup { ClusterBaseOf(p) : p \in ClusterFileArgs }
    \cup { SocBaseOf(p) : p \in SocFileArgs }

-----------------------------------------------------------------------------
(* Descriptor documents.  A JSON document is a function from the dotted    *)
(* name of a leaf to its value; a nested leaf can be assigned only where   *)
(* the document already has it (its containers exist), a top-level one     *)
(* always.                                                                 *)

AbsentFile == [kind |-> "absent", f |-> NoObject]

MalformedFile == [kind |-> "malformed", f |-> NoObject]

JsonFile(f) == [kind |-> "json", f |-> f]

\* A file opened for writing (truncated) whose JSON document was cut short.
PartialFile == [kind |-> "partial", f |-> NoObject]

\* A Python value json.dump has no encoding for (a set).
NotJson == [kind |-> "set", n |-> 0, s |-> ""]

\* json.dump raises TypeError on a value it cannot encode.
Serializable(v) == v.kind \in {"none", "int", "str"}


HexDigit(d) == SubSeq("0123456789abcdef", d + 1, d + 1)

RECURSIVE HexStr(_)
HexStr(n) == IF n < 16 THEN HexDigit(n) ELSE HexStr(n \div 16) \o HexDigit(n % 16)

RECURSIVE ZeroPad(_, _)
ZeroPad(str, width) == IF Len(str) >= width THEN str ELSE ZeroPad("0" \o str, width)

\* f"0x{n:x}": the hexadecimal digits without the width.
Hex8NoWidth(n) ==
    IF n < 0 THEN "0x-" \o HexStr(0 - n) ELSE "0x" \o HexStr(n)

\* f"0x{n:08x}": the sign counts in the width of 8.
Hex8(n) ==
    IF n < 0 THEN "0x-" \o ZeroPad(HexStr(0 - n), 7)
    ELSE "0x" \o ZeroPad(HexStr(n), 8)

BaseCluster ==
    JsonFile([ nb_pe |-> IntV(9),
               icache_config_nb_cores |-> IntV(9),
               peripherals_event_unit_config_nb_core |-> IntV(9),
               l1_mapping_size |-> StrV("0x00010000"),
               version |-> IntV(1) ])

BaseSoc ==
    JsonFile([ l2_size |-> StrV("0x00190000"),
               l2_shared_mapping_size |-> StrV("0x00180000"),
               l2_shared_nb_banks |-> IntV(4),
               version |-> IntV(1) ])

\* config[...] = value on a nested leaf: KeyError where a container is missing.
CanAssign(f, leaf) == leaf \in DOMAIN f

\* config["nb_pe"] = value: a top-level assignment adds the key if missing.
SetTop(f, leaf, value) ==
    [k \in DOMAIN f \cup {leaf} |-> IF k = leaf THEN value ELSE f[k]]

\* PalloySimulator._update_cluster_config: the files after the call and the
\* boolean it returns.  Every exception is caught and gives False.
UpdateClusterConfig(fs, s, cores, l1) ==
    LET base == fs[s.cluster_base_file]
        ok   == /\ base.kind = "json"
                /\ IsInt(cores)
                /\ CanAssign(base.f, "icache_config_nb_cores")
                /\ CanAssign(base.f, "peripherals_event_unit_config_nb_core")
                /\ IsInt(l1)
                /\ CanAssign(base.f, "l1_mapping_size")
        doc  == [SetTop(base.f, "nb_pe", IntV(cores.n + 1)) EXCEPT
                    !["icache_config_nb_cores"] = IntV(cores.n + 1),
                    !["peripherals_event_unit_config_nb_core"] = IntV(cores.n + 1),
                    !["l1_mapping_size"] = StrV(Hex8(l1.n * 1024))]
    IN  IF ok
        THEN [files |-> [fs EXCEPT ![s.cluster_config_file] = JsonFile(doc)],
              ok |-> TRUE]
        ELSE [files |-> fs, ok |-> FALSE]

\* PalloySimulator._update_soc_config.  The active file is opened for writing
\* and the document streamed into it: a value json.dump cannot encode raises
\* after the file was truncated and the text before the value written.
UpdateSocConfig(fs, s, l2, banks) ==
    LET base == fs[s.soc_base_file]
        ok   == /\ base.kind = "json"
                /\ IsInt(l2)
                /\ CanAssign(base.f, "l2_size")
                /\ CanAssign(base.f, "l2_shared_mapping_size")
                /\ CanAssign(base.f, "l2_shared_nb_banks")
        doc  == [base.f EXCEPT
                    !["l2_size"] = StrV(Hex8(l2.n * 1024)),
                    !["l2_shared_mapping_size"] = StrV(Hex8(l2.n * 1024 - 32768 * 2)),
                    !["l2_shared_nb_banks"] = banks]
    IN  IF ok /\ Serializable(banks)
        THEN [files |-> [fs EXCEPT ![s.soc_config_file] = JsonFile(doc)],
              ok |-> TRUE]
        ELSE IF ok
        THEN [files |-> [fs EXCEPT ![s.soc_config_file] = PartialFile],
              ok |-> FALSE]
        ELSE [files |-> fs, ok |-> FALSE]

-----------------------------------------------------------------------------
(* Construction                                                            *)

EmptyMap == [k \in {} |-> None]

\* Constructor arguments: for each of the five parameters None or a value,
\* the two descriptor paths, the debug flag.
ArgSets(ks, cfiles, sfiles, debugs) ==
    { [kw |-> kw, cluster_config_file |-> c, soc_config_file |-> sf, debug |-> d] :
        kw \in { [k \in Keys |-> IF k \in given THEN ArgVal(k) ELSE None] :
                    given \in SUBSET ks },
        c \in cfiles, sf \in sfiles, d \in debugs }

NoArgs ==
    [ kw |-> [k \in Keys |-> None], cluster_config_file |-> DefaultClusterFile,
      soc_config_file |-> DefaultSocFile, debug |-> FALSE ]

\* No PalloySimulator: the state of a PalloyConfig used on its own.
NoSim == [constructed |-> FALSE]

\* PalloyConfig.__init__: defaults, then _load_config.
ConfigInit(file) == LoadConfig(DefaultParams, file).params

\* The overlay in the wrong order: the file is read over the arguments.
SimParamsFileWins(file, a) ==
    LoadConfig(UpdateAll(DefaultParams, a.kw, DOMAIN a.kw), file).params

\* PalloySimulator.__init__, lines 138-151: the Parameter Set.
SimParams(file, a) == UpdateAll(ConfigInit(file), a.kw, DOMAIN a.kw)

\* Path(value) raises TypeError unless value is a str.
PathOk(v) == v.kind = "str"

\* PalloySimulator.__init__, lines 153-178: the instance fields.
SimFields(p, a) ==
    [ constructed         |-> TRUE,
      workload_path       |-> Resolve(Get(p, "workload_path", None).s),
      num_cluster_cores   |-> Get(p, "num_cluster_cores", None),
      l1_size_kb          |-> Get(p, "l1_size_kb", None),
      l2_size_kb          |-> Get(p, "l2_size_kb", None),
      l2_num_banks        |-> Get(p, "l2_num_banks", None),
      debug               |-> a.debug,
      cluster_config_file |-> a.cluster_config_file,
      soc_config_file     |-> a.soc_config_file,
      cluster_base_file   |-> ClusterBaseOf(a.cluster_config_file),
      soc_base_file       |-> SocBaseOf(a.soc_config_file),
      last_results        |-> EmptyMap ]

NoCall == [op |-> "init", key |-> "", value |-> None, result |-> ""]

NoReturn == [kind |-> "none", value |-> EmptyMap]

AbsentTrace == [kind |-> "absent", text |-> <<>>]

\* The descriptor files before the first workflow: the templates of the
\* default directory as given, no active file yet, nothing elsewhere.
InitialFiles(cbase, sbase) ==
    [p \in DescriptorPaths |->
        CASE p = <<"chips", "cluster.json">> -> cbase
          [] p = <<"chips", "soc.json">>     -> sbase
          [] OTHER                           -> AbsentFile]

\* The drivers' lists of core counts: test_cores.py (cores1, cores2) and
\* test_matmul.py (core_configs).
CoreConfigs(prog) ==
    IF prog = "test_cores" THEN <<4, 8>> ELSE <<2, 4, 8, 16>>

\* out_dir / f"results_{cores}cores.json"
ResultFile(cores) == "results_" \o ToString(cores) \o "cores.json"

\* The result paths written to: the one of the __main__ block of palloy.py
\* and those of the drivers.
ResultPaths ==
    {"results.json"} \cup {ResultFile(c) : c \in {2, 4, 8, 16}}

NoResults == [p \in ResultPaths |-> AbsentFile]

NoDriver == [prog |-> "none", i |-> 0, pc |-> "off"]

\* What no workflow has touched yet.
Untouched ==
    /\ results = NoResults
    /\ driver = NoDriver
    /\ trace = AbsentTrace
    /\ pc = "idle"
    /\ started = <<>>
    /\ launched = <<>>
    /\ ret = NoReturn
    /\ last = NoCall
    /\ runs = 0

\* A PalloyConfig constructed on its own over any config file.
InitConfig ==
    /\ cfgFile \in FileStates(Keys \cup {UnknownKey})
    /\ args = NoArgs
    /\ params = ConfigInit(cfgFile)
    /\ sim = NoSim
    /\ files = InitialFiles(BaseCluster, BaseSoc)
    /\ wkind = [w \in WorkloadPaths |-> "dir"]
    /\ gvsocKind = "dir"
    /\ Untouched

\* A PalloySimulator constructed over any config file with any arguments.
\* A construction that raises (workload_path null in the file and not given)
\* leaves no object, hence no state.
InitCtor ==
    /\ cfgFile \in FileStates(Keys \cup {UnknownKey})
    /\ args \in ArgSets(Keys, {DefaultClusterFile}, {DefaultSocFile}, {FALSE})
    /\ params = SimParams(cfgFile, args)
    /\ PathOk(params["workload_path"])
    /\ sim = SimFields(params, args)
    /\ files = InitialFiles(BaseCluster, BaseSoc)
    /\ wkind = [w \in WorkloadPaths |-> "dir"]
    /\ gvsocKind = "dir"
    /\ Untouched

-----------------------------------------------------------------------------
(* Operations on the Parameter Set                                         *)

\* palloy_config.update(key=value), between workflow invocations.
Update(key, value) ==
    /\ pc = "idle"
    /\ params' = UpdateAll(params, [k \in {key} |-> value], {key})
    /\ last' = [op |-> "update", key |-> key, value |-> value, result |-> "None"]
    /\ UNCHANGED <<results, driver, cfgFile, args, sim, files, wkind, gvsocKind,
                   trace, pc, started, launched, ret, runs>>

\* The values update is called with: None, or a value for the key.
UpdateValues(key) == {None, ArgVal(key)}

NextConfig ==
    \E key \in Keys \cup {UnknownKey} : \E value \in UpdateValues(key) :
        Update(key, value)

SpecConfig == InitConfig /\ [][NextConfig]_vars

NextCtor ==
    \E value \in UpdateValues("num_cluster_cores") :
        Update("num_cluster_cores", value)

SpecCtor == InitCtor /\ [][NextCtor]_vars

-----------------------------------------------------------------------------
(* External commands                                                       *)

ExitCodes == {0, 1}

\* PalloySimulator._run_command: subprocess.run in the directory cwd.  Where
\* cwd is not a directory the call raises (FileNotFoundError,
\* NotADirectoryError) and the command never runs; nothing catches it.
RunCommand(cwdKind, code) ==
    IF cwdKind = "dir"
    THEN [raised |-> FALSE, ran |-> TRUE, returncode |-> code]
    ELSE [raised |-> TRUE, ran |-> FALSE, returncode |-> code]

\* PalloySimulator._run_command_streaming: subprocess.Popen, then wait.
RunCommandStreaming(cwdKind, code) ==
    IF cwdKind = "dir"
    THEN [raised |-> FALSE, ran |-> TRUE, returncode |-> code]
    ELSE [raised |-> TRUE, ran |-> FALSE, returncode |-> code]

\* run_method = self._run_command_streaming if self.debug else self._run_command
RunMethod(s, cwdKind, code) ==
    IF s.debug THEN RunCommandStreaming(cwdKind, code) ELSE RunCommand(cwdKind, code)

-----------------------------------------------------------------------------
(* The trace file and extract_metrics                                      *)

\* The ceiling on the bytes read from the end of the trace (8192 in the
\* source), scaled to the lengths of the traces of the model.
TailBytes == 6

Digits == {"1", "2", "3"}

DigitVal(c) == CASE c = "1" -> 1 [] c = "2" -> 2 [] OTHER -> 3

Whitespace == {" ", "\n"}

TextTrace(text) == [kind |-> "text", text |-> text]

UnreadableTrace == [kind |-> "unreadable", text |-> <<>>]

\* f.seek(max(0, file_size - buffer_size)); f.read()
TailOf(text) ==
    LET size == Len(text)
        buffer_size == IF TailBytes < size THEN TailBytes ELSE size
    IN  SubSeq(text, size - buffer_size + 1, size)

\* str.splitlines on the line feed.
RECURSIVE SplitLines(_)
SplitLines(text) ==
    IF text = <<>> THEN <<>>
    ELSE IF \E i \in 1..Len(text) : text[i] = "\n"
         THEN LET i == CHOOSE j \in 1..Len(text) :
                          /\ text[j] = "\n"
                          /\ \A h \in 1..(j - 1) : text[h] # "\n"
              IN  <<SubSeq(text, 1, i - 1)>> \o SplitLines(SubSeq(text, i + 1, Len(text)))
         ELSE <<text>>

\* line.strip() is non-empty
NonBlank(line) == \E i \in 1..Len(line) : line[i] \notin Whitespace

NoLine == <<"\n">>

\* The last line taken as it is, blank or not.
LastLineNoSkip(lines) ==
    IF lines # <<>> /\ NonBlank(lines[Len(lines)]) THEN lines[Len(lines)] ELSE NoLine

\* next((line for line in reversed(lines) if line.strip()), None)
LastLine(lines) ==
    IF \E i \in 1..Len(lines) : NonBlank(lines[i])
    THEN lines[CHOOSE i \in 1..Len(lines) :
                  /\ NonBlank(lines[i])
                  /\ \A j \in (i + 1)..Len(lines) : ~NonBlank(lines[j])]
    ELSE NoLine

\* The number of consecutive characters of the set cs in line from position i.
RECURSIVE Run(_, _, _)
Run(line, i, cs) ==
    IF i <= Len(line) /\ line[i] \in cs THEN 1 + Run(line, i + 1, cs) ELSE 0

RECURSIVE ToInt(_)
ToInt(ds) ==
    IF ds = <<>> THEN 0
    ELSE 10 * ToInt(SubSeq(ds, 1, Len(ds) - 1)) + DigitVal(ds[Len(ds)])

\* re.match(r'^(\d+):\s*(\d+):', line): the two groups as integers.
MatchLine(line) ==
    LET n1 == Run(line, 1, Digits)
        c1 == n1 + 1
        ws == Run(line, c1 + 1, {" "})
        d2 == c1 + 1 + ws
        n2 == Run(line, d2, Digits)
        c2 == d2 + n2
        ok == /\ n1 > 0
              /\ c1 <= Len(line) /\ line[c1] = ":"
              /\ n2 > 0
              /\ c2 <= Len(line) /\ line[c2] = ":"
    IN  IF ok
        THEN [matched |-> TRUE, timestamp_ps |-> IntV(ToInt(SubSeq(line, 1, n1))),
              cycles |-> IntV(ToInt(SubSeq(line, d2, c2 - 1)))]
        ELSE [matched |-> FALSE, timestamp_ps |-> None, cycles |-> None]

NoMatch == [matched |-> FALSE, timestamp_ps |-> None, cycles |-> None]

\* The parse that looks for the last line that matches, not the last line
\* that is not blank.
ParseTraceLastMatching(tr) ==
    IF tr.kind # "text" \/ tr.text = <<>> THEN NoMatch
    ELSE LET lines == SplitLines(TailOf(tr.text))
         IN  IF \E i \in 1..Len(lines) : MatchLine(lines[i]).matched
             THEN MatchLine(lines[CHOOSE i \in 1..Len(lines) :
                                    /\ MatchLine(lines[i]).matched
                                    /\ \A j \in (i + 1)..Len(lines) :
                                          ~MatchLine(lines[j]).matched])
             ELSE NoMatch

\* Lines 465-498: what the trace file gives.
ParseTrace(tr) ==
    IF tr.kind # "text" \/ tr.text = <<>> THEN NoMatch
    ELSE LET last_line == LastLine(SplitLines(TailOf(tr.text)))
         IN  IF last_line = NoLine THEN NoMatch ELSE MatchLine(last_line)

\* PalloySimulator.extract_metrics: the Metrics Record.
ExtractMetrics(s, tr) ==
    LET m == ParseTrace(tr)
    IN  [ num_cluster_cores |-> s.num_cluster_cores,
          workload          |-> StrV(s.workload_path),
          cycles            |-> m.cycles,
          timestamp_ps      |-> m.timestamp_ps ]

-----------------------------------------------------------------------------
(* The workflow                                                            *)

\* Workflow invocations made on one runner.
MaxRuns == 2

Pending == [kind |-> "pending", value |-> EmptyMap]

Raised == [kind |-> "raised", value |-> EmptyMap]

Returned(m) == [kind |-> "value", value |-> m]

Call(op, result) == [op |-> op, key |-> "", value |-> None, result |-> result]

\* The workflow that does not look at what a stage returned.
AfterStageNoGate(stage, result, next) ==
    /\ started' = Append(started, [stage |-> stage, result |-> result])
    /\ last' = Call(stage, result)
    /\ pc' = IF result = "raised" THEN "idle" ELSE next
    /\ ret' = IF result = "raised" THEN Raised ELSE ret

\* run_full_workflow between two stages: a stage that returned True hands
\* over to the next one, one that returned False makes the workflow return
\* {}, one that raised ends the invocation with its exception.
AfterStage(stage, result, next) ==
    /\ started' = Append(started, [stage |-> stage, result |-> result])
    /\ last' = Call(stage, result)
    /\ pc' = IF result = "True" THEN next ELSE "idle"
    /\ ret' = CASE result = "True"  -> ret
                [] result = "False" -> Returned(EmptyMap)
                [] OTHER            -> Raised

\* The entry that forgets the results of the invocation before.
RunFullWorkflowClearsResults ==
    /\ pc = "idle"
    /\ sim.constructed
    /\ runs < MaxRuns
    /\ runs' = runs + 1
    /\ pc' = "set_params"
    /\ started' = <<>>
    /\ launched' = <<>>
    /\ ret' = Pending
    /\ last' = Call("run_full_workflow", "")
    /\ sim' = [sim EXCEPT !.last_results = EmptyMap]
    /\ UNCHANGED <<results, driver, cfgFile, args, params, files, wkind, gvsocKind,
                   trace>>

\* run_full_workflow is entered (lines 517-522).
RunFullWorkflow ==
    /\ pc = "idle"
    /\ sim.constructed
    /\ runs < MaxRuns
    /\ runs' = runs + 1
    /\ pc' = "set_params"
    /\ started' = <<>>
    /\ launched' = <<>>
    /\ ret' = Pending
    /\ last' = Call("run_full_workflow", "")
    /\ UNCHANGED <<results, driver, cfgFile, args, params, sim, files, wkind, gvsocKind, trace>>

\* Lines 344-347 of set_params: the numeric working fields.
Snapshot(s, p) ==
    [s EXCEPT !.num_cluster_cores = Get(p, "num_cluster_cores", s.num_cluster_cores),
              !.l1_size_kb = Get(p, "l1_size_kb", s.l1_size_kb),
              !.l2_size_kb = Get(p, "l2_size_kb", s.l2_size_kb),
              !.l2_num_banks = Get(p, "l2_num_banks", s.l2_num_banks)]

\* Stage 1, set_params.
SetParams ==
    /\ pc = "set_params"
    /\ LET s1       == Snapshot(sim, params)
           workload == Get(params, "workload_path", StrV(sim.workload_path))
       IN  IF ~PathOk(workload)
           THEN /\ sim' = s1
                /\ files' = files
                /\ AfterStage("set_params", "raised", "rebuild_architecture")
           ELSE LET s2      == [s1 EXCEPT !.workload_path = Resolve(workload.s)]
                    cluster == UpdateClusterConfig(files, s2, s2.num_cluster_cores,
                                                   s2.l1_size_kb)
                    soc     == UpdateSocConfig(cluster.files, s2, s2.l2_size_kb,
                                               s2.l2_num_banks)
                IN  /\ sim' = s2
                    /\ files' = soc.files
                    /\ AfterStage("set_params",
                                  IF cluster.ok /\ soc.ok THEN "True" ELSE "False",
                                  "rebuild_architecture")
    /\ UNCHANGED <<results, driver, cfgFile, args, params, wkind, gvsocKind, trace, launched, runs>>

\* What a stage makes of the command it ran.
StageResult(r) ==
    IF r.raised THEN "raised" ELSE IF r.returncode = 0 THEN "True" ELSE "False"

\* Stage 2, rebuild_architecture: make build in gvsoc_dir.
RebuildArchitecture ==
    /\ pc = "rebuild_architecture"
    /\ \E code \in ExitCodes :
          LET r == RunMethod(sim, gvsocKind, code)
          IN  /\ launched' = IF r.ran THEN Append(launched, "build") ELSE launched
              /\ AfterStage("rebuild_architecture", StageResult(r), "recompile_workload")
    /\ UNCHANGED <<results, driver, cfgFile, args, params, sim, files, wkind, gvsocKind, trace, runs>>

\* self.workload_path.exists()
Exists(kind) == kind # "absent"

\* recompile_workload without its test of the workload path, the command
\* run in the directory the runner was started in.
RecompileWorkloadUnchecked ==
    /\ pc = "recompile_workload"
    /\ \E code \in ExitCodes :
          LET r == RunMethod(sim, "dir", code)
          IN  /\ launched' = IF r.ran THEN Append(launched, "compile") ELSE launched
              /\ AfterStage("recompile_workload", StageResult(r), "run_simulation")
    /\ UNCHANGED <<results, driver, cfgFile, args, params, sim, files, wkind, gvsocKind, trace, runs>>

\* Stage 3, recompile_workload: make all in the workload directory.
RecompileWorkload ==
    /\ pc = "recompile_workload"
    /\ IF ~Exists(wkind[sim.workload_path])
       THEN /\ launched' = launched
            /\ AfterStage("recompile_workload", "False", "run_simulation")
       ELSE \E code \in ExitCodes :
               LET r == RunMethod(sim, wkind[sim.workload_path], code)
               IN  /\ launched' = IF r.ran THEN Append(launched, "compile")
                                  ELSE launched
                   /\ AfterStage("recompile_workload", StageResult(r),
                                 "run_simulation")
    /\ UNCHANGED <<results, driver, cfgFile, args, params, sim, files, wkind, gvsocKind, trace, runs>>

\* The trace files the simulator leaves behind: none, an unreadable one, an
\* empty one, blank lines only, a last line that does not match, a matching
\* last line followed by a blank line, a matching line followed by one that
\* does not match, and a single line longer than the tail that is read.
TraceFiles ==
    { AbsentTrace, UnreadableTrace, TextTrace(<<>>),
      TextTrace(<<"\n", " ", "\n">>),
      TextTrace(<<"x", "1", ":">>),
      TextTrace(<<"1", "2", ":", "3", ":", "\n">>),
      TextTrace(<<"1", ":", "2", ":", "\n", "x">>),
      TextTrace(<<"x">> \o <<"1", ":", "2", ":">>
                \o [i \in 1..(TailBytes - 4) |-> "y"]) }

\* Stage 4, run_simulation: make run in the workload directory; the simulator
\* that ran has written the trace file.
RunSimulation ==
    /\ pc = "run_simulation"
    /\ \E code \in ExitCodes : \E written \in TraceFiles :
          LET r == RunMethod(sim, wkind[sim.workload_path], code)
          IN  /\ launched' = IF r.ran THEN Append(launched, "run") ELSE launched
              /\ trace' = IF r.ran THEN written ELSE trace
              /\ AfterStage("run_simulation", StageResult(r), "extract_metrics")
    /\ UNCHANGED <<results, driver, cfgFile, args, params, sim, files, wkind, gvsocKind, runs>>

\* Stage 5, extract_metrics, and the return of the workflow (lines 545-551).
ExtractMetricsStage ==
    /\ pc = "extract_metrics"
    /\ LET metrics == ExtractMetrics(sim, trace)
       IN  /\ sim' = [sim EXCEPT !.last_results = metrics]
           /\ started' = Append(started, [stage |-> "extract_metrics",
                                          result |-> "metrics"])
           /\ last' = Call("extract_metrics", "metrics")
           /\ pc' = "idle"
           /\ ret' = Returned(metrics)
    /\ UNCHANGED <<results, driver, cfgFile, args, params, files, wkind, gvsocKind,
                   trace, launched, runs>>

\* extract_metrics called on its own, outside a workflow.
ExtractMetricsCall ==
    /\ pc = "idle"
    /\ sim.constructed
    /\ sim' = [sim EXCEPT !.last_results = ExtractMetrics(sim, trace)]
    /\ last' = Call("extract_metrics", "metrics")
    /\ UNCHANGED <<results, driver, cfgFile, args, params, files, wkind, gvsocKind,
                   trace, pc, started, launched, ret, runs>>

\* PalloySimulator.save_results(output_file): the last results are dumped,
\* whatever they are.
SaveResults(path) ==
    /\ pc = "idle"
    /\ sim.constructed
    /\ results' = [results EXCEPT ![path] = JsonFile(sim.last_results)]
    /\ last' = [op |-> "save_results", key |-> path, value |-> None,
                result |-> "None"]
    /\ UNCHANGED <<driver, cfgFile, args, params, sim, files, wkind, gvsocKind,
                   trace, pc, started, launched, ret, runs>>

\* A PalloySimulator as the drivers construct it, in the environments it can
\* find: the config file absent or giving null for the core count, either
\* descriptor path, the templates good or not, the workload path and the
\* simulator directory there or not.
Init ==
    /\ cfgFile \in { FileOf("absent", NoObject),
                     FileOf("object", ObjectOf([k \in {"num_cluster_cores"} |-> "null"])) }
    /\ args \in ArgSets({}, ClusterFileArgs, SocFileArgs, BOOLEAN)
    /\ params = SimParams(cfgFile, args)
    /\ PathOk(params["workload_path"])
    /\ sim = SimFields(params, args)
    /\ \E cbase \in {BaseCluster, MalformedFile} : \E sbase \in {BaseSoc, AbsentFile} :
          files = InitialFiles(cbase, sbase)
    /\ \E kind \in {"absent", "file", "dir"} :
          wkind = [w \in WorkloadPaths |->
                      IF w = sim.workload_path THEN kind ELSE "dir"]
    /\ gvsocKind \in {"absent", "dir"}
    /\ Untouched

Next ==
    \/ RunFullWorkflow
    \/ SetParams
    \/ RebuildArchitecture
    \/ RecompileWorkload
    \/ RunSimulation
    \/ ExtractMetricsStage
    \/ \E value \in UpdateValues("num_cluster_cores") :
          Update("num_cluster_cores", value)

Spec == Init /\ [][Next]_vars

\* The characters of the trace files enumerated in full, and their greatest
\* length: one more than the tail that is read.
TraceAlphabet == {"1", ":", " ", "\n"}

MaxTraceLen == 7

AllTraces ==
    {AbsentTrace, UnreadableTrace}
    \cup { TextTrace(text) :
             text \in UNION { [1..n -> TraceAlphabet] : n \in 0..MaxTraceLen } }

\* A default PalloySimulator beside any trace file.
InitTrace ==
    /\ cfgFile = FileOf("absent", NoObject)
    /\ args = NoArgs
    /\ params = SimParams(cfgFile, args)
    /\ sim = SimFields(params, args)
    /\ files = InitialFiles(BaseCluster, BaseSoc)
    /\ wkind = [w \in WorkloadPaths |-> "dir"]
    /\ gvsocKind = "dir"
    /\ trace \in AllTraces
    /\ results = NoResults
    /\ driver = NoDriver
    /\ pc = "idle"
    /\ started = <<>>
    /\ launched = <<>>
    /\ ret = NoReturn
    /\ last = NoCall
    /\ runs = 0

NextTrace == ExtractMetricsCall

SpecTrace == InitTrace /\ [][NextTrace]_vars

-----------------------------------------------------------------------------
(* A runner whose results are saved                                        *)

\* A default PalloySimulator, the workload there or not.
InitSave ==
    /\ cfgFile = FileOf("absent", NoObject)
    /\ args = NoArgs
    /\ params = SimParams(cfgFile, args)
    /\ sim = SimFields(params, args)
    /\ files = InitialFiles(BaseCluster, BaseSoc)
    /\ \E kind \in {"absent", "dir"} :
          wkind = [w \in WorkloadPaths |->
                      IF w = sim.workload_path THEN kind ELSE "dir"]
    /\ gvsocKind = "dir"
    /\ Untouched

NextSave ==
    \/ Next
    \/ SaveResults("results.json")

SpecSave == InitSave /\ [][NextSave]_vars

-----------------------------------------------------------------------------
(* The descriptor rewrites over the parameter values                       *)

\* A PalloySimulator given any of the four numeric parameters, over a config
\* file that gives all four or is absent, in a good environment.
InitRewrite ==
    /\ cfgFile \in { FileOf("absent", NoObject),
                     FileOf("object", ObjectOf([k \in Keys \ {"workload_path"}
                                                  |-> "val"])) }
    /\ args \in ArgSets(Keys \ {"workload_path"}, {DefaultClusterFile},
                        {DefaultSocFile}, {FALSE})
    /\ params = SimParams(cfgFile, args)
    /\ sim = SimFields(params, args)
    /\ files = InitialFiles(BaseCluster, BaseSoc)
    /\ wkind = [w \in WorkloadPaths |-> "dir"]
    /\ gvsocKind = "dir"
    /\ Untouched

\* The workflow, with l2_num_banks updated to an integer or to a value that
\* is not JSON between invocations.
NextRewrite ==
    \/ Next
    \/ \E value \in {ArgVal("l2_num_banks"), NotJson} :
          Update("l2_num_banks", value)

SpecRewrite == InitRewrite /\ [][NextRewrite]_vars

-----------------------------------------------------------------------------
(* The example drivers                                                     *)

\* The parameters of PalloySimulator.__init__ (lines 96-111).
CtorParameters ==
    { "workload_path", "config", "target", "venv_dir", "gvsoc_dir", "sdk_dir",
      "trace_file", "cluster_config_file", "soc_config_file",
      "num_cluster_cores", "l1_size_kb", "l2_size_kb", "l2_num_banks",
      "palloy_config_file", "debug" }

\* The keyword arguments a driver constructs its runners with.
DriverKeywords(prog) ==
    IF prog = "test_cores" THEN {"workload_path", "num_cluster_cores", "debug"}
    ELSE {"workload_path", "num_cluster_cores", "trace_filter", "debug"}

DriverArgs(prog, cores) ==
    [ kw |-> [k \in Keys |->
                 CASE k = "workload_path"     -> StrV(DriverWorkload(prog))
                   [] k = "num_cluster_cores" -> IntV(cores)
                   [] OTHER                   -> None],
      cluster_config_file |-> DefaultClusterFile,
      soc_config_file |-> DefaultSocFile, debug |-> TRUE ]

Cores == CoreConfigs(driver.prog)[driver.i]

\* sim = PalloySimulator(...): a keyword that is not a parameter raises
\* TypeError, which ends the driver.
DriverConstruct ==
    /\ driver.pc = "construct"
    /\ IF DriverKeywords(driver.prog) \subseteq CtorParameters
       THEN /\ args' = DriverArgs(driver.prog, Cores)
            /\ params' = SimParams(cfgFile, args')
            /\ sim' = SimFields(params', args')
            /\ runs' = 0
            /\ pc' = "idle"
            /\ started' = <<>>
            /\ launched' = <<>>
            /\ ret' = NoReturn
            /\ last' = Call("__init__", "None")
            /\ driver' = [driver EXCEPT !.pc = "run"]
       ELSE /\ last' = Call("__init__", "raised")
            /\ driver' = [driver EXCEPT !.pc = "raised"]
            /\ UNCHANGED <<args, params, sim, runs, pc, started, launched, ret>>
    /\ UNCHANGED <<results, cfgFile, files, wkind, gvsocKind, trace>>

\* metrics = sim.run_full_workflow()
DriverRunWorkflow ==
    /\ driver.pc = "run"
    /\ ret = NoReturn
    /\ RunFullWorkflow

\* An exception of the workflow is not caught by the driver.
DriverRaised ==
    /\ driver.pc = "run"
    /\ pc = "idle"
    /\ ret = Raised
    /\ driver' = [driver EXCEPT !.pc = "raised"]
    /\ UNCHANGED <<results, cfgFile, args, params, sim, files, wkind, gvsocKind,
                   trace, pc, started, launched, ret, last, runs>>

\* sim.save_results(str(result_file)), whatever the workflow returned.
DriverSaveResults ==
    /\ driver.pc = "run"
    /\ ret.kind = "value"
    /\ last.op # "save_results"
    /\ SaveResults(ResultFile(Cores))

\* The next core count, or the end of the list.
DriverLoop ==
    /\ driver.pc = "run"
    /\ last.op = "save_results"
    /\ driver' = IF driver.i < Len(CoreConfigs(driver.prog))
                 THEN [driver EXCEPT !.i = driver.i + 1, !.pc = "construct"]
                 ELSE [driver EXCEPT !.pc = "done"]
    /\ UNCHANGED <<results, cfgFile, args, params, sim, files, wkind, gvsocKind,
                   trace, pc, started, launched, ret, last, runs>>

\* A driver started where the simulator and the workload are there or not.
InitDriver ==
    /\ cfgFile = FileOf("absent", NoObject)
    /\ args = NoArgs
    /\ params = DefaultParams
    /\ sim = NoSim
    /\ files = InitialFiles(BaseCluster, BaseSoc)
    /\ \E kind \in {"absent", "dir"} :
          wkind = [w \in WorkloadPaths |->
                      IF w = DriverWorkload("test_cores") THEN kind ELSE "dir"]
    /\ gvsocKind \in {"absent", "dir"}
    /\ results = NoResults
    /\ \E prog \in {"test_cores", "test_matmul"} :
          driver = [prog |-> prog, i |-> 1, pc |-> "construct"]
    /\ trace = AbsentTrace
    /\ pc = "idle"
    /\ started = <<>>
    /\ launched = <<>>
    /\ ret = NoReturn
    /\ last = NoCall
    /\ runs = 0

NextDriver ==
    \/ DriverConstruct
    \/ DriverRunWorkflow
    \/ SetParams
    \/ RebuildArchitecture
    \/ RecompileWorkload
    \/ RunSimulation
    \/ ExtractMetricsStage
    \/ DriverRaised
    \/ DriverSaveResults
    \/ DriverLoop

SpecDriver == InitDriver /\ [][NextDriver]_vars

-----------------------------------------------------------------------------
(* Properties                                                              *)

StageOrder ==
    << "set_params", "rebuild_architecture", "recompile_workload",
       "run_simulation", "extract_metrics" >>

MetricKeys == {"num_cluster_cores", "workload", "cycles", "timestamp_ps"}

\* C1: the stages of a workflow invocation start in the fixed order
\* set_params, rebuild_architecture, recompile_workload, run_simulation,
\* extract_metrics; every stage that was followed by another one returned
\* True; a stage among the first four that returned False is the last one the
\* invocation started, and the invocation returned {}.
C1_FixedOrderGating ==
    /\ Len(started) <= Len(StageOrder)
    /\ \A i \in 1..Len(started) : started[i].stage = StageOrder[i]
    /\ \A i \in 1..(Len(started) - 1) : started[i].result = "True"
    /\ pc # "idle" => pc = StageOrder[Len(started) + 1]
    /\ \A i \in 1..Len(started) :
          (i <= 4 /\ started[i].result = "False")
          => /\ i = Len(started)
             /\ pc = "idle"
             /\ ret = Returned(EmptyMap)

\* The architecture build exited non-zero: recompile_workload never started.
C1_Witness ==
    /\ Len(started) = 2
    /\ started[2] = [stage |-> "rebuild_architecture", result |-> "False"]
    /\ launched = <<"build">>
    /\ pc = "idle"
    /\ ret = Returned(EmptyMap)

\* C2: an update call with a value for a recognized key sets that key to the
\* value and leaves the four other keys as they were; with None for the key,
\* or with a key that is not recognized, it changes nothing and adds no key.
C2_UpdateFrame ==
    [][ last'.op = "update" =>
          LET k == last'.key
              v == last'.value
          IN  /\ DOMAIN params' = Keys
              /\ (k \in Keys /\ v # None)
                 => /\ params'[k] = v
                    /\ \A j \in Keys \ {k} : params'[j] = params[j]
              /\ (k \notin Keys \/ v = None) => params' = params ]_vars

\* An update has replaced what the file or the defaults gave for a key.
C2_Witness ==
    /\ last.op = "update"
    /\ last.key = "l2_size_kb"
    /\ last.value # None
    /\ params["l2_size_kb"] = last.value
    /\ ConfigInit(cfgFile)["l2_size_kb"] # last.value
    /\ params["l1_size_kb"] = ConfigInit(cfgFile)["l1_size_kb"]

\* C3: whatever the config file is (absent, unreadable, malformed, an object
\* with any recognized and unrecognized keys), _load_config returns normally,
\* the keys the file does not mention keep their defaults, no other key
\* enters the Parameter Set, and an unreadable or malformed file leaves all
\* five defaults.
C3_LoadKeepsDefaults ==
    last.op = "init" =>
        /\ ~LoadConfig(DefaultParams, cfgFile).raised
        /\ DOMAIN params = Keys
        /\ \A k \in Keys \ DOMAIN cfgFile.obj : params[k] = DefaultParams[k]
        /\ cfgFile.kind # "object" => params = DefaultParams

\* A file with one recognized and one unrecognized key has been loaded.
C3_Witness ==
    /\ last.op = "init"
    /\ cfgFile.kind = "object"
    /\ DOMAIN cfgFile.obj = {"l1_size_kb", UnknownKey}
    /\ params["l1_size_kb"] = FileVal("l1_size_kb")
    /\ params["l2_size_kb"] = DefaultParams["l2_size_kb"]

\* C4: the Parameter Set always holds exactly the five recognized keys, none
\* of them with the value None.
C4_NeverUnset ==
    /\ DOMAIN params = Keys
    /\ \A k \in Keys : params[k] # None

\* The value the precedence rule gives a key: the constructor argument, else
\* what the file defines, else the default.
Expected(k) ==
    IF args.kw[k] # None THEN args.kw[k]
    ELSE IF cfgFile.kind = "object" /\ k \in DOMAIN cfgFile.obj THEN cfgFile.obj[k]
    ELSE DefaultParams[k]

NumericKeys == Keys \ {"workload_path"}

WorkingField(k) ==
    CASE k = "num_cluster_cores" -> sim.num_cluster_cores
      [] k = "l1_size_kb"        -> sim.l1_size_kb
      [] k = "l2_size_kb"        -> sim.l2_size_kb
      [] k = "l2_num_banks"      -> sim.l2_num_banks
      [] OTHER                   -> StrV(sim.workload_path)

\* C5 as stated: after construction every key has, in the Parameter Set and
\* in the runner's working field, the constructor argument if given, else the
\* file's value, else the default.
C5_Original ==
    last.op = "init" =>
        \A k \in Keys : params[k] = Expected(k) /\ WorkingField(k) = Expected(k)

\* C5 amended: after construction every key has that value in the Parameter
\* Set; the working field has the same value for the four numeric keys and
\* the resolved, absolute form of it for workload_path.
C5_Precedence ==
    last.op = "init" =>
        /\ \A k \in Keys : params[k] = Expected(k)
        /\ \A k \in NumericKeys : WorkingField(k) = Expected(k)
        /\ sim.workload_path = Resolve(Expected("workload_path").s)

\* One key from the argument, one from the file, one from the defaults, and
\* the default workload path resolved.
C5_Witness ==
    /\ last.op = "init"
    /\ args.kw["num_cluster_cores"] # None
    /\ cfgFile.kind = "object"
    /\ DOMAIN cfgFile.obj = {"num_cluster_cores", "l1_size_kb"}
    /\ sim.num_cluster_cores = ArgVal("num_cluster_cores")
    /\ sim.l1_size_kb = FileVal("l1_size_kb")
    /\ sim.l2_size_kb = DefaultParams["l2_size_kb"]
    /\ params["workload_path"] = StrV(DefaultWorkload)
    /\ sim.workload_path = "/cwd/pulp-sdk/tests/hello"

\* C6: no step changes the content of a base descriptor template.
C6_BaseNeverWritten ==
    [][ /\ files'[sim.cluster_base_file] = files[sim.cluster_base_file]
        /\ files'[sim.soc_base_file] = files[sim.soc_base_file] ]_vars

\* C7 as stated: a workflow whose workload path does not exist launches no
\* child process at all and returns {}.
C7_Original ==
    wkind[sim.workload_path] = "absent" =>
        /\ launched = <<>>
        /\ ret.kind = "value" => ret.value = EmptyMap

\* C7 amended: a workflow whose workload path does not exist launches at most
\* the architecture build, never the workload build or the simulator, and
\* never returns a Metrics Record: what it returns is {}.
C7_NoWorkloadLaunch ==
    wkind[sim.workload_path] = "absent" =>
        /\ launched \in {<<>>, <<"build">>}
        /\ Len(started) <= 3
        /\ ret.kind = "value" => ret.value = EmptyMap

\* The missing workload path was found by recompile_workload, after the build.
C7_Witness ==
    /\ wkind[sim.workload_path] = "absent"
    /\ Len(started) = 3
    /\ started[3] = [stage |-> "recompile_workload", result |-> "False"]
    /\ launched = <<"build">>
    /\ ret = Returned(EmptyMap)

\* C8: recompile_workload on a workload path that is not a directory returns
\* False and launches nothing.
C8_NotADirectoryFails ==
    (last.op = "recompile_workload" /\ wkind[sim.workload_path] # "dir")
    => /\ last.result = "False"
       /\ \A i \in 1..Len(launched) : launched[i] # "compile"

\* C9: no stage and no workflow invocation ends with an exception.
C9_NoException ==
    /\ last.result # "raised"
    /\ ret.kind # "raised"
    /\ \A i \in 1..Len(started) : started[i].result # "raised"

\* What the last non-blank line of a whole trace file gives.
WholeFileParse(tr) ==
    IF tr.kind # "text" \/ tr.text = <<>> THEN NoMatch
    ELSE LET last_line == LastLine(SplitLines(tr.text))
         IN  IF last_line = NoLine THEN NoMatch ELSE MatchLine(last_line)

\* What the last non-blank line of the tail that is read gives.
TailParse(tr) ==
    IF tr.kind # "text" \/ tr.text = <<>> THEN NoMatch
    ELSE LET last_line == LastLine(SplitLines(TailOf(tr.text)))
         IN  IF last_line = NoLine THEN NoMatch ELSE MatchLine(last_line)

\* The workflow returned a Metrics Record without numbers, and kept it.
NoDataRecord ==
    /\ ret.kind = "value"
    /\ DOMAIN ret.value = MetricKeys
    /\ ret.value["num_cluster_cores"] = sim.num_cluster_cores
    /\ ret.value["num_cluster_cores"] # None
    /\ ret.value["workload"] = StrV(sim.workload_path)
    /\ ret.value["cycles"] = None
    /\ ret.value["timestamp_ps"] = None
    /\ sim.last_results = ret.value

\* C10 as stated: stages 1-4 succeeded and the trace file is absent, empty,
\* blank, unreadable or has a last non-blank line that does not match: the
\* workflow returns a Metrics Record with both numbers absent, which becomes
\* the last result.
C10_Original ==
    (last.op = "extract_metrics" /\ ~WholeFileParse(trace).matched) => NoDataRecord

\* C10 amended: the same, the last non-blank line being that of the tail of
\* TailBytes bytes that extract_metrics reads (a line longer than the tail is
\* seen without its beginning).
C10_NoDataIsNotFatal ==
    (last.op = "extract_metrics" /\ ~TailParse(trace).matched) => NoDataRecord

\* A trace whose last line does not match, after a line that does.
C10_Witness ==
    /\ last.op = "extract_metrics"
    /\ trace = TextTrace(<<"1", ":", "2", ":", "\n", "x">>)
    /\ Len(started) = 5
    /\ ret.kind = "value"
    /\ ret.value["cycles"] = None
    /\ sim.last_results = ret.value

\* The line a text ends with: positions a..b hold no line feed, a line feed
\* or an end of the text is on either side, some character of a..b is not
\* whitespace and every character after b is.
IsLastNonBlankLine(text, a, b) ==
    /\ a <= b
    /\ \A i \in a..b : text[i] # "\n"
    /\ a = 1 \/ text[a - 1] = "\n"
    /\ b = Len(text) \/ text[b + 1] = "\n"
    /\ \E i \in a..b : text[i] \notin Whitespace
    /\ \A i \in (b + 1)..Len(text) : text[i] \in Whitespace

\* line is i digits, a colon, w blanks, k digits, a colon, then anything.
HasPrefix(line, i, w, k) ==
    /\ i >= 1 /\ k >= 1
    /\ i + 1 + w + k + 1 <= Len(line)
    /\ \A h \in 1..i : line[h] \in Digits
    /\ line[i + 1] = ":"
    /\ \A h \in (i + 2)..(i + 1 + w) : line[h] = " "
    /\ \A h \in (i + 2 + w)..(i + 1 + w + k) : line[h] \in Digits
    /\ line[i + 2 + w + k] = ":"

Absent == [timestamp_ps |-> None, cycles |-> None]

\* What the rule of the one deciding line gives for a text.
OneLineRule(text) ==
    LET n == Len(text)
    IN  IF \E a, b \in 1..n : IsLastNonBlankLine(text, a, b)
        THEN LET ab   == CHOOSE ab \in (1..n) \X (1..n) :
                            IsLastNonBlankLine(text, ab[1], ab[2])
                 line == SubSeq(text, ab[1], ab[2])
                 m    == Len(line)
             IN  IF \E i, w, k \in 0..m : HasPrefix(line, i, w, k)
                 THEN LET p == CHOOSE p \in (0..m) \X (0..m) \X (0..m) :
                                  HasPrefix(line, p[1], p[2], p[3])
                      IN  [ timestamp_ps |-> IntV(ToInt(SubSeq(line, 1, p[1]))),
                            cycles |-> IntV(ToInt(SubSeq(line, p[1] + p[2] + 2,
                                                         p[1] + p[2] + p[3] + 1))) ]
                 ELSE Absent
        ELSE Absent

Parsed(m) == [timestamp_ps |-> m.timestamp_ps, cycles |-> m.cycles]

BothOrNeither(m) == (m.cycles = None) <=> (m.timestamp_ps = None)

IsRecordOf(file, c) ==
    /\ file.kind = "json"
    /\ DOMAIN file.f = MetricKeys
    /\ file.f["num_cluster_cores"] = IntV(c)

\* C12: once the driver over the core counts 2, 4, 8, 16 has ended, there is
\* one result file per core count, each a Metrics Record holding that core
\* count.
C12_OneFilePerCoreCount ==
    (driver.prog = "test_matmul" /\ driver.pc \in {"done", "raised"})
    => \A i \in 1..Len(CoreConfigs("test_matmul")) :
          IsRecordOf(results[ResultFile(CoreConfigs("test_matmul")[i])],
                     CoreConfigs("test_matmul")[i])

\* C13: every result file save_results has written is a JSON object with
\* exactly the four Metrics Record fields, the last results of the runner;
\* hence none is written while no workflow has completed.
C13_ResultFileIsRecord ==
    /\ \A p \in ResultPaths :
          results[p].kind # "absent"
          => results[p].kind = "json" /\ DOMAIN results[p].f = MetricKeys
    /\ last.op = "save_results" => results[last.key] = JsonFile(sim.last_results)

\* The value of a string of hexadecimal digits, -1 if it is not one.
RECURSIVE HexValue(_)
HexValue(str) ==
    IF str = "" THEN 0
    ELSE LET c    == SubSeq(str, Len(str), Len(str))
             rest == HexValue(SubSeq(str, 1, Len(str) - 1))
         IN  IF rest < 0 \/ ~(\E d \in 0..15 : HexDigit(d) = c) THEN -1
             ELSE 16 * rest + (CHOOSE d \in 0..15 : HexDigit(d) = c)

\* v is the string "0x" followed by the hexadecimal digits of the
\* non-negative n, padded with zeros to eight digits.
IsHexOf(v, n) ==
    /\ n >= 0
    /\ v.kind = "str"
    /\ Len(v.s) >= 10
    /\ SubSeq(v.s, 1, 2) = "0x"
    /\ Len(v.s) > 10 => SubSeq(v.s, 3, 3) # "0"
    /\ HexValue(SubSeq(v.s, 3, Len(v.s))) = n

Positive(v) == IsInt(v) /\ v.n > 0

ClusterRewritten ==
    { "nb_pe", "icache_config_nb_cores",
      "peripherals_event_unit_config_nb_core", "l1_mapping_size" }

\* C14: after set_params with a positive core count c and a positive
\* l1_size_kb, the active cluster descriptor holds c + 1 in nb_pe,
\* icache.config.nb_cores and peripherals.event_unit.config.nb_core, the
\* 0x%08x form of l1_size_kb * 1024 in l1.mapping.size, and the value of the
\* base template in every other field.
C14_ClusterRewrite ==
    ( /\ last.op = "set_params"
      /\ Positive(sim.num_cluster_cores)
      /\ Positive(sim.l1_size_kb) )
    => LET doc  == files[sim.cluster_config_file]
           base == files[sim.cluster_base_file]
           c    == sim.num_cluster_cores.n
       IN  /\ doc.kind = "json"
           /\ doc.f["nb_pe"] = IntV(c + 1)
           /\ doc.f["icache_config_nb_cores"] = IntV(c + 1)
           /\ doc.f["peripherals_event_unit_config_nb_core"] = IntV(c + 1)
           /\ IsHexOf(doc.f["l1_mapping_size"], sim.l1_size_kb.n * 1024)
           /\ DOMAIN doc.f = DOMAIN base.f
           /\ \A k \in DOMAIN base.f \ ClusterRewritten : doc.f[k] = base.f[k]

\* 4 cores and 64 KB: 5 and "0x00010000".
C14_Witness ==
    /\ last.op = "set_params"
    /\ sim.num_cluster_cores = IntV(4)
    /\ sim.l1_size_kb = IntV(64)
    /\ files[sim.cluster_config_file].kind = "json"
    /\ files[sim.cluster_config_file].f["nb_pe"] = IntV(5)
    /\ files[sim.cluster_config_file].f["l1_mapping_size"] = StrV("0x00010000")
    /\ files[sim.cluster_config_file].f["version"] = IntV(1)

\* C15: after set_params with a positive l2_size_kb and a positive
\* l2_num_banks, the active SoC descriptor holds the hexadecimal form of
\* l2_size_kb * 1024 in l2.size, the hexadecimal form of a non-negative byte
\* count, that total minus 0x10000, in l2.shared.mapping.size, and
\* l2_num_banks in l2.shared.nb_banks.
C15_SocRewrite ==
    ( /\ last.op = "set_params"
      /\ Positive(sim.l2_size_kb)
      /\ Positive(sim.l2_num_banks) )
    => LET doc == files[sim.soc_config_file]
       IN  /\ doc.kind = "json"
           /\ IsHexOf(doc.f["l2_size"], sim.l2_size_kb.n * 1024)
           /\ IsHexOf(doc.f["l2_shared_mapping_size"],
                      sim.l2_size_kb.n * 1024 - 65536)
           /\ doc.f["l2_shared_nb_banks"] = sim.l2_num_banks

\* C16: a set_params that failed returned False and left each active
\* descriptor either as it was or a complete JSON document; no descriptor
\* file is ever cut short.
C16_NeverHalfWritten ==
    \A p \in DescriptorPaths : files[p].kind # "partial"

\* C17: a step changes last_results only if it is extract_metrics; the
\* stages that abort an invocation, its entry and its return of {} leave
\* last_results as it was.
C17_OnlyExtractModifies ==
    [][ sim'.last_results # sim.last_results
        => (pc = "extract_metrics" /\ last'.op = "extract_metrics") ]_vars

\* A second invocation aborted after a first one that completed: it returned
\* {} and the save_results that follows writes the record of the first.
C17_Witness ==
    /\ runs = 2
    /\ ret = Returned(EmptyMap)
    /\ last.op = "save_results"
    /\ sim.last_results # EmptyMap
    /\ results["results.json"] = JsonFile(sim.last_results)
    /\ results["results.json"].f # ret.value

====
